---- MODULE Spec2Model ----
(***************************************************************************)
(* Model of the route resolution engine of the London bike pipeline:       *)
(*   - RateLimiter (london_bike_pipeline.py)                               *)
(*   - hydrate_routes / fetch_pair / route cache (london_bike_pipeline.py) *)
(*   - the resumable month loop of backfill_range.py main()                *)
(*   - save_route_cache / load_route_cache on the parquet file             *)
(*   - the startup of main(), auto_tune_osrm and benchmark_config          *)
(*                                                                         *)
(* Time is a discrete clock of 1/12 s ticks (time.monotonic()).            *)
(* Coordinates are IEEE doubles; the model keeps what the code can tell    *)
(* apart: a raw coordinate is an integer number of 1e-7 degrees, a rounded *)
(* coordinate is a sign bit and a magnitude in 1e-6 degrees, so that -0.0  *)
(* and 0.0 are equal as numbers but format differently.                    *)
(***************************************************************************)
EXTENDS Integers, Sequences, FiniteSets, TLC

\* ------------------------------------------------------------------ bounds
NumCallers == 2
MaxCalls == 3
MaxClock == 8
MaxTrips == 2
MaxCap == 2
MaxWorkers == 2
MaxMonths == 3
DaysPerMonth == 2
MaxRuns == 2
MaxProbes == 2
NumWorkerLevels == 1

\* ------------------------------------------------------------------ state
VARIABLES
    clock,        \* time.monotonic(), in ticks
    osrm_qps,     \* the qps the limiter is built with
    limiter,      \* "none" | "built" | "ValueError"
    interval,     \* RateLimiter.interval
    next_ts,      \* RateLimiter._next_ts
    lock,         \* RateLimiter._lock: 0 when free, else the holder
    tpc,          \* per caller: "ready" | "sleeping"
    sleep_until,  \* per caller: the clock value time.sleep() waits for
    returns,      \* clock values at which calls of wait() returned, in order
    \* hydrate_routes
    trips,            \* the rows of the trips frame: raw coordinate 4-tuples
    cache,            \* dict[str, RouteResult]
    max_new_routes,   \* <<>> for None, <<k>> for the integer k
    osrm_workers,     \* max_workers of the pool
    hpc,              \* "call" | "pool" | "returned" | "raised"
    missing,          \* list of pairs whose key is not in the cache
    to_fetch,         \* pairs submitted to the pool
    to_fallback,      \* pairs beyond the cap
    fut,              \* one future per submitted pair
    wtask,            \* per pool thread: index of the future it runs, or 0
    done_order,       \* futures completed and not yet merged, as as_completed yields them
    call_no,          \* 1 for the first call of hydrate_routes, 2 for the repeated one
    cache_at_call,    \* the cache as it was when the current call started
    resolver_calls,   \* pairs fetch_osrm_route was called with during the current call
    net_requests,     \* GET requests sent to the routing service during the current call
    acquires,         \* limiter.wait() calls completed during the current call
    limiters_made,    \* RateLimiter objects built during the current call
    pools_made,       \* ThreadPoolExecutor objects built during the current call
    first_return,     \* the cache the first call returned
    first_attempts,   \* number of pairs the first call passed to the resolver
    \* backfill_range.main
    months_n,           \* len(months)
    resume,             \* args.resume
    continue_on_error,  \* args.continue_on_error
    output_days,        \* per month: daily parquet files in the output directory
    pause_file,         \* pause_file.exists()
    bpc,                \* "idle" | "loop" | "month" | "after_loop" | "paused" | "completed" | "raised"
    mpc,                \* the step process_month is at: "ingest" | "hydrate" | "save" | "export"
    index,              \* the loop's index, from 1
    paused,             \* the local flag paused
    completed_months,   \* the local counter completed_months
    state_file,         \* the last snapshot written by write_backfill_state
    route_store,        \* the route cache parquet file
    route_cache,        \* the in-memory route cache of process_month
    store_at_month,     \* the route store as the current process_month found it
    pipelines_started,  \* months process_month was called for in this run
    bf_net_calls,       \* requests sent by this run
    marked,             \* months counted into completed_months in this run
    pause_seen_at,      \* the month after which this run first saw the pause file, or 0
    last_handled,       \* the last month this run skipped or passed to process_month
    failed,             \* months whose process_month raised in this run
    pause_held,         \* the pause file has been there since the run started
    run_no,             \* the number of the run of main()
    \* save_route_cache / load_route_cache on the parquet file
    cache_file,         \* the file at cache_path: missing, unreadable, or a table
    mem_cache,          \* the dict[str, RouteResult] held by the caller
    fpc,                \* "idle" | "ready" | "saved" | "loaded" | "save_raised" | "load_raised"
    saved_cache,        \* the cache the last save_route_cache was called with
    file_intact,        \* nothing touched the file since save_route_cache wrote it
    \* backfill_range.main up to the first month, auto_tune_osrm, benchmark_config
    spc,                \* the position in main()
    end_latest,         \* args.end_month == "latest"
    start_after_end,    \* the start month is after the explicit end month
    qps_arg,            \* args.osrm_qps
    tune_mode,          \* "off" | "tune" | "only": --auto-tune, --auto-tune-only
    probe_n,            \* len(pairs) of the probe list
    requests_sent,      \* the services a request was sent to so far
    cand,               \* number of the candidate being benchmarked
    probe,              \* probes of the current candidate that returned
    success,            \* benchmark_config's success counter
    failure,            \* benchmark_config's failure counter
    probe_raised,       \* per candidate: resolver calls that raised
    results,            \* the list of metrics rows
    chosen,             \* the row auto_tune_osrm selected, or <<>>
    degraded,           \* the "no probe reached 99.5%" warning was logged
    tuned,              \* the (workers, qps) auto_tune_osrm returned, or <<>>
    startup_error,      \* the exception that ended main(), or "none"
    store_at_start      \* the route store as main() found it

limVars == <<clock, osrm_qps, limiter, interval, next_ts, lock, tpc, sleep_until, returns>>

hydVars == <<trips, cache, max_new_routes, osrm_workers, hpc, missing, to_fetch,
             to_fallback, fut, wtask, done_order, call_no, cache_at_call,
             resolver_calls, net_requests, acquires, limiters_made, pools_made,
             first_return, first_attempts>>

bfVars == <<months_n, resume, continue_on_error, output_days, pause_file, bpc, mpc,
            index, paused, completed_months, state_file, route_store, route_cache,
            store_at_month, pipelines_started, bf_net_calls, marked, pause_seen_at,
            last_handled, failed, pause_held, run_no>>

fileVars == <<cache_file, mem_cache, fpc, saved_cache, file_intact>>

tuneVars == <<spc, end_latest, start_after_end, qps_arg, tune_mode, probe_n,
              requests_sent, cand, probe, success, failure, probe_raised, results,
              chosen, degraded, tuned, startup_error, store_at_start>>

vars == <<limVars, hydVars, bfVars, fileVars, tuneVars>>

Max(a, b) == IF a >= b THEN a ELSE b
Min(a, b) == IF a <= b THEN a ELSE b

\* ------------------------------------------------------------ RateLimiter
Callers == 1..NumCallers

\* the qps values a run may be configured with (requests per second)
QpsChoices == {0, 3, 6}

\* self.interval = 1.0 / qps, in ticks of 1/12 s
IntervalOf(qps) == 12 \div qps

\* self._next_ts = max(self._next_ts, now) + self.interval, without the max:
\* the eligible instant lags behind the clock while the limiter is idle
NextEligibleNoMax(nts, now, ivl) == nts + ivl

\* self._next_ts = max(self._next_ts, now) + self.interval
NextEligible(nts, now, ivl) == Max(nts, now) + ivl

\* RateLimiter.__init__
RateLimiterInit ==
    /\ limiter = "none"
    /\ \/ /\ osrm_qps <= 0
          /\ limiter' = "ValueError"
          /\ UNCHANGED <<interval, next_ts, lock>>
       \/ /\ osrm_qps > 0
          /\ limiter' = "built"
          /\ interval' = IntervalOf(osrm_qps)
          /\ next_ts' = 0
          /\ lock' = 0
    /\ UNCHANGED <<clock, osrm_qps, tpc, sleep_until, returns>>
    /\ UNCHANGED <<hydVars, bfVars, fileVars, tuneVars>>

\* the monotonic clock advances
Tick ==
    /\ clock < MaxClock
    /\ clock' = clock + 1
    /\ UNCHANGED <<osrm_qps, limiter, interval, next_ts, lock, tpc, sleep_until, returns>>
    /\ UNCHANGED <<hydVars, bfVars, fileVars, tuneVars>>

\* wait(): take the lock and read the clock; either go to sleep holding the
\* lock, or book the slot and return
WaitEnter(t) ==
    /\ limiter = "built"
    /\ tpc[t] = "ready"
    /\ lock = 0
    /\ Len(returns) < MaxCalls
    /\ \/ /\ clock < next_ts
          /\ lock' = t
          /\ tpc' = [tpc EXCEPT ![t] = "sleeping"]
          /\ sleep_until' = [sleep_until EXCEPT ![t] = next_ts]
          /\ UNCHANGED <<next_ts, returns>>
       \/ /\ ~(clock < next_ts)
          /\ next_ts' = NextEligible(next_ts, clock, interval)
          /\ returns' = Append(returns, clock)
          /\ UNCHANGED <<lock, tpc, sleep_until>>
    /\ UNCHANGED <<clock, osrm_qps, limiter, interval>>
    /\ UNCHANGED <<hydVars, bfVars, fileVars, tuneVars>>

\* wait(): time.sleep() is over (it never returns early), the clock is read
\* again, the slot is booked, the lock released
WaitWake(t) ==
    /\ tpc[t] = "sleeping"
    /\ lock = t
    /\ clock >= sleep_until[t]
    /\ next_ts' = NextEligible(next_ts, clock, interval)
    /\ returns' = Append(returns, clock)
    /\ lock' = 0
    /\ tpc' = [tpc EXCEPT ![t] = "ready"]
    /\ UNCHANGED <<clock, osrm_qps, limiter, interval, sleep_until>>
    /\ UNCHANGED <<hydVars, bfVars, fileVars, tuneVars>>

\* ------------------------------------------------------------ coordinates
\* round half to even of n/d, for n >= 0 (numpy.round)
RoundHalfEven(n, d) ==
    LET q == n \div d
        r == n % d
    IN  IF 2 * r < d THEN q
        ELSE IF 2 * r > d THEN q + 1
        ELSE IF q % 2 = 0 THEN q ELSE q + 1

\* .round(6) of a raw coordinate (in 1e-7 degrees): a double with its sign
\* bit; a negative value that rounds to zero is -0.0
Round6(x) ==
    [neg |-> x < 0, mag |-> RoundHalfEven(IF x < 0 THEN 0 - x ELSE x, 10)]

\* == on doubles: -0.0 == 0.0
FloatEq(a, b) == (a.mag = 0 /\ b.mag = 0) \/ a = b

\* f"{x:.6f}" of a rounded double: the sign character and the digits
Format6(c) == <<IF c.neg THEN "-" ELSE "", c.mag>>

\* int(round(x * 1e6)), as polyline.encode(precision=6) takes a coordinate
ToMicro(c) == IF c.neg THEN 0 - c.mag ELSE c.mag

\* .round(6) of one row (start_lon, start_lat, end_lon, end_lat)
RoundPair(p) == <<Round6(p[1]), Round6(p[2]), Round6(p[3]), Round6(p[4])>>

\* two rows hold equal values
PairEq(p, q) == \A i \in 1..4 : FloatEq(p[i], q[i])

\* .drop_duplicates(ignore_index=True): the first row of each group of equal
\* rows is kept, in order
RECURSIVE DropDuplicates(_)
DropDuplicates(rows) ==
    IF rows = <<>> THEN <<>>
    ELSE LET n == Len(rows)
             front == DropDuplicates(SubSeq(rows, 1, n - 1))
         IN  IF \E j \in 1..Len(front) : PairEq(front[j], rows[n])
             THEN front
             ELSE Append(front, rows[n])

\* unique_pairs of hydrate_routes
UniquePairs(rows) == DropDuplicates([i \in 1..Len(rows) |-> RoundPair(rows[i])])

\* route_key
route_key(p) == <<Format6(p[1]), Format6(p[2]), Format6(p[3]), Format6(p[4])>>

\* ---------------------------------------------------------------- polyline
\* polyline.encode(points, precision=6): each (lat, lon) point as integers of
\* 1e-6 degrees, written as the difference to the point before it
PolylineEncode(points) ==
    [i \in 1..Len(points) |->
        IF i = 1
        THEN <<ToMicro(points[1][1]), ToMicro(points[1][2])>>
        ELSE <<ToMicro(points[i][1]) - ToMicro(points[i - 1][1]),
               ToMicro(points[i][2]) - ToMicro(points[i - 1][2])>>]

\* polyline.decode(geometry, precision=6): the running sums, as (lat, lon)
\* integers of 1e-6 degrees
RECURSIVE PolylineDecode(_)
PolylineDecode(g) ==
    IF g = <<>> THEN <<>>
    ELSE LET n == Len(g)
             front == PolylineDecode(SubSeq(g, 1, n - 1))
         IN  IF n = 1 THEN <<g[1]>>
             ELSE Append(front, <<front[n - 1][1] + g[n][1], front[n - 1][2] + g[n][2]>>)

\* straight_line_polyline6
straight_line_polyline6(p) ==
    LET first == <<<<p[2], p[1]>>>>
        points == IF ~FloatEq(p[1], p[3]) \/ ~FloatEq(p[2], p[4])
                  THEN Append(first, <<p[4], p[3]>>)
                  ELSE first
    IN  PolylineEncode(points)

\* ------------------------------------------------------------- RouteResult
RouteResult(p, geometry, distance, duration, source) ==
    [start_lon |-> p[1], start_lat |-> p[2], end_lon |-> p[3], end_lat |-> p[4],
     route_geometry |-> geometry, route_distance_m |-> distance,
     route_duration_s |-> duration, route_source |-> source]

\* the coordinate fields of a result, start and end exchanged
ResultPairSwapped(r) == <<r.end_lon, r.end_lat, r.start_lon, r.start_lat>>

\* the coordinate fields of a result
ResultPair(r) == <<r.start_lon, r.start_lat, r.end_lon, r.end_lat>>

\* the result fetch_osrm_route builds from a response with code "Ok" and a
\* route: the geometry, distance and duration are the service's
OsrmResult(p) ==
    RouteResult(p, PolylineEncode(<<<<p[2], p[1]>>, <<p[2], p[3]>>, <<p[4], p[3]>>>>),
                7, 3, "osrm")

\* the straight-line result of fetch_pair's except branch and of the cap loop
FallbackResult(p, source) ==
    RouteResult(p, straight_line_polyline6(p), 0, 0, source)

\* fetch_osrm_route without the test of equal ends: every pair is requested
FetchOsrmRouteAlwaysRequests(p, response) ==
    IF response = "ok"
    THEN [raised |-> FALSE, requests |-> 1, result |-> OsrmResult(p)]
    ELSE [raised |-> TRUE, requests |-> 1, result |-> [route_source |-> "none"]]

\* fetch_osrm_route: a pair with equal ends is answered without a request;
\* otherwise one GET whose response is "ok" or a failure (error status,
\* code other than "Ok", no routes, timeout, transport error), which raises
fetch_osrm_route(p, response) ==
    IF FloatEq(p[1], p[3]) /\ FloatEq(p[2], p[4])
    THEN [raised |-> FALSE, requests |-> 0,
          result |-> RouteResult(p, straight_line_polyline6(p), 0, 0, "stationary")]
    ELSE IF response = "ok"
    THEN [raised |-> FALSE, requests |-> 1, result |-> OsrmResult(p)]
    ELSE [raised |-> TRUE, requests |-> 1, result |-> [route_source |-> "none"]]

\* fetch_pair without its try/except: the resolver's exception leaves the task
FetchPairNoCatch(p, response) ==
    LET r == fetch_osrm_route(p, response)
    IN  [raised |-> r.raised, result |-> r.result]

\* fetch_pair, after limiter.wait(): the resolver's result, or the
\* straight-line fallback when it raised; the task itself never raises
fetch_pair(p, response) ==
    LET r == fetch_osrm_route(p, response)
    IN  [raised |-> FALSE,
         result |-> IF r.raised THEN FallbackResult(p, "fallback_straight_line")
                    ELSE r.result]

\* ---------------------------------------------------------- hydrate_routes
\* missing without the lookup in the cache
MissingIgnoringCache(unique, c) == unique

\* missing: the unique pairs whose key is not in the cache
Missing(unique, c) == SelectSeq(unique, LAMBDA p : route_key(p) \notin DOMAIN c)

\* the index a Python slice bound k denotes in a list of length n
PyBound(n, k) == IF k < 0 THEN Max(n + k, 0) ELSE Min(k, n)

\* to_fetch with the slice one pair too long
ToFetchOneMore(miss, cap) ==
    IF cap # <<>> /\ Len(miss) > cap[1]
    THEN SubSeq(miss, 1, PyBound(Len(miss), cap[1] + 1))
    ELSE miss

\* to_fetch: missing[:max_new_routes] when the cap is set and exceeded
ToFetch(miss, cap) ==
    IF cap # <<>> /\ Len(miss) > cap[1]
    THEN SubSeq(miss, 1, PyBound(Len(miss), cap[1]))
    ELSE miss

\* to_fallback: missing[max_new_routes:] when the cap is set and exceeded
ToFallback(miss, cap) ==
    IF cap # <<>> /\ Len(miss) > cap[1]
    THEN SubSeq(miss, PyBound(Len(miss), cap[1]) + 1, Len(miss))
    ELSE <<>>

\* cache[key] = result
CachePut(c, key, result) ==
    [k \in DOMAIN c \cup {key} |-> IF k = key THEN result ELSE c[k]]

\* the loop over to_fallback: each pair gets a fallback_max_new_routes result
RECURSIVE MergeFallbacks(_, _)
MergeFallbacks(c, pairs) ==
    IF pairs = <<>> THEN c
    ELSE MergeFallbacks(
            CachePut(c, route_key(pairs[1]), FallbackResult(pairs[1], "fallback_max_new_routes")),
            Tail(pairs))

\* a cache as an earlier run leaves it: every result under the key of its own
\* coordinates
CacheOf(rs) ==
    [k \in {route_key(ResultPair(r)) : r \in rs} |->
        CHOOSE r \in rs : route_key(ResultPair(r)) = k]

\* the rows a trips frame may hold: raw (start_lon, start_lat, end_lon, end_lat)
\* in 1e-7 degrees, on both sides of the meridian
RawPairs ==
    { <<4, 20, 10, 20>>,     \* rounds to ( 0.0, 2, 1, 2)
      <<-4, 20, 10, 20>>,    \* rounds to (-0.0, 2, 1, 2)
      <<0, 20, 10, 20>>,     \* rounds to ( 0.0, 2, 1, 2)
      <<10, 20, 4, 20>>,     \* rounds to ( 1, 2, 0.0, 2)
      <<10, 20, 14, 20>> }   \* rounds to ( 1, 2, 1, 2): equal ends

\* all lists of at most n rows
RowLists(n) == UNION { [1..k -> RawPairs] : k \in 0..n }

\* caches left by earlier runs
InitCaches ==
    { CacheOf(S) : S \in SUBSET
        { FallbackResult(RoundPair(<<4, 20, 10, 20>>), "fallback_straight_line"),
          OsrmResult(RoundPair(<<10, 20, 4, 20>>)) } }

\* values of --max-new-routes: None or an integer
CapChoices == {<<>>} \cup { <<k>> : k \in (-1)..MaxCap }

\* values of --osrm-workers
WorkerChoices == 0..MaxWorkers

\* values of --osrm-qps in a hydration cycle
HydrateQps == {0, 6}

PoolThreads == 1..MaxWorkers

\* no hydration cycle is under way
HydrateIdle ==
    /\ trips = <<>>
    /\ cache = <<>>
    /\ max_new_routes = <<>>
    /\ osrm_workers = 0
    /\ hpc = "idle"
    /\ missing = <<>>
    /\ to_fetch = <<>>
    /\ to_fallback = <<>>
    /\ fut = <<>>
    /\ wtask = [w \in PoolThreads |-> 0]
    /\ done_order = <<>>
    /\ call_no = 0
    /\ cache_at_call = <<>>
    /\ resolver_calls = {}
    /\ net_requests = 0
    /\ acquires = 0
    /\ limiters_made = 0
    /\ pools_made = 0
    /\ first_return = <<>>
    /\ first_attempts = 0

\* no cache file operation is under way
FileIdle ==
    /\ cache_file = [kind |-> "missing"]
    /\ mem_cache = <<>>
    /\ fpc = "idle"
    /\ saved_cache = <<>>
    /\ file_intact = FALSE

\* main() is not at its startup
StartupIdle ==
    /\ spc = "idle"
    /\ end_latest = FALSE
    /\ start_after_end = FALSE
    /\ qps_arg = 0
    /\ tune_mode = "off"
    /\ probe_n = 0
    /\ requests_sent = {}
    /\ cand = 0
    /\ probe = 0
    /\ success = 0
    /\ failure = 0
    /\ probe_raised = <<>>
    /\ results = <<>>
    /\ chosen = <<>>
    /\ degraded = FALSE
    /\ tuned = <<>>
    /\ startup_error = "none"
    /\ store_at_start = [exists |-> FALSE, entries |-> {}]

\* no backfill run is under way
BackfillIdle ==
    /\ months_n = 0
    /\ resume = FALSE
    /\ continue_on_error = FALSE
    /\ output_days = <<>>
    /\ pause_file = FALSE
    /\ bpc = "idle"
    /\ mpc = "none"
    /\ index = 0
    /\ paused = FALSE
    /\ completed_months = 0
    /\ state_file = [status |-> "none"]
    /\ route_store = [exists |-> FALSE, entries |-> {}]
    /\ route_cache = {}
    /\ store_at_month = [exists |-> FALSE, entries |-> {}]
    /\ pipelines_started = {}
    /\ bf_net_calls = 0
    /\ marked = {}
    /\ pause_seen_at = 0
    /\ last_handled = 0
    /\ failed = {}
    /\ pause_held = FALSE
    /\ run_no = 0

\* hydrate_routes up to the submission of the futures: the missing list, the
\* early return, the limiter, the cap and the pool
HydrateCall ==
    /\ hpc = "call"
    /\ LET miss == Missing(UniquePairs(trips), cache)
       IN  /\ missing' = miss
           /\ \/ /\ miss = <<>>
                 /\ hpc' = "returned"
                 /\ first_return' = IF call_no = 1 THEN cache ELSE first_return
                 /\ UNCHANGED <<limiter, interval, next_ts, limiters_made, pools_made,
                                to_fetch, to_fallback, fut>>
              \/ /\ miss # <<>>
                 /\ osrm_qps <= 0
                 /\ limiter' = "ValueError"
                 /\ hpc' = "raised"
                 /\ UNCHANGED <<interval, next_ts, limiters_made, pools_made,
                                to_fetch, to_fallback, fut, first_return>>
              \/ /\ miss # <<>>
                 /\ osrm_qps > 0
                 /\ limiter' = "built"
                 /\ interval' = IntervalOf(osrm_qps)
                 /\ next_ts' = 0
                 /\ limiters_made' = limiters_made + 1
                 /\ to_fetch' = ToFetch(miss, max_new_routes)
                 /\ to_fallback' = ToFallback(miss, max_new_routes)
                 /\ \/ /\ osrm_workers <= 0
                       /\ hpc' = "raised"
                       /\ UNCHANGED <<pools_made, fut>>
                    \/ /\ osrm_workers > 0
                       /\ hpc' = "pool"
                       /\ pools_made' = pools_made + 1
                       /\ fut' = [i \in 1..Len(to_fetch') |->
                                    [st |-> "queued", response |-> "none",
                                     raised |-> FALSE,
                                     result |-> [route_source |-> "none"]]]
                 /\ UNCHANGED first_return
    /\ UNCHANGED <<clock, osrm_qps, lock, tpc, sleep_until, returns, bfVars, fileVars, tuneVars>>
    /\ UNCHANGED <<trips, cache, max_new_routes, osrm_workers, wtask, done_order,
                   call_no, cache_at_call, resolver_calls, net_requests, acquires,
                   first_attempts>>

\* a pool whose threads never take a submitted future
QueuedNone == {}

\* the futures no pool thread has taken yet
Queued == {i \in 1..Len(fut) : fut[i].st = "queued"}

\* fetch_pair without limiter.wait(): the thread takes the future and goes
\* straight to the resolver
WorkerWaitSkipsLimiter(w) ==
    /\ hpc = "pool"
    /\ w <= osrm_workers
    /\ wtask[w] = 0
    /\ Queued # {}
    /\ LET i == CHOOSE i \in Queued : \A j \in Queued : i <= j
       IN  /\ wtask' = [wtask EXCEPT ![w] = i]
           /\ fut' = [fut EXCEPT ![i].st = "running"]
    /\ UNCHANGED <<limVars, bfVars, fileVars, tuneVars>>
    /\ UNCHANGED <<trips, cache, max_new_routes, osrm_workers, hpc, missing, to_fetch,
                   to_fallback, done_order, call_no, cache_at_call, resolver_calls,
                   net_requests, acquires, limiters_made, pools_made, first_return,
                   first_attempts>>

\* a pool thread takes the oldest queued future and runs fetch_pair up to the
\* return of limiter.wait(): under the lock it sleeps until _next_ts if the
\* clock is before it, then books the next slot
WorkerWait(w) ==
    /\ hpc = "pool"
    /\ w <= osrm_workers
    /\ wtask[w] = 0
    /\ Queued # {}
    /\ LET i == CHOOSE i \in Queued : \A j \in Queued : i <= j
           now == Max(clock, next_ts)
       IN  /\ wtask' = [wtask EXCEPT ![w] = i]
           /\ fut' = [fut EXCEPT ![i].st = "running"]
           /\ clock' = now
           /\ next_ts' = NextEligible(next_ts, now, interval)
    /\ acquires' = acquires + 1
    /\ UNCHANGED <<osrm_qps, limiter, interval, lock, tpc, sleep_until, returns, bfVars, fileVars, tuneVars>>
    /\ UNCHANGED <<trips, cache, max_new_routes, osrm_workers, hpc, missing, to_fetch,
                   to_fallback, done_order, call_no, cache_at_call, resolver_calls,
                   net_requests, limiters_made, pools_made, first_return, first_attempts>>

\* fetch_pair storing its result in the cache itself, on the pool thread
WorkerFetchWritesCache(w, response) ==
    /\ hpc = "pool"
    /\ wtask[w] # 0
    /\ LET i == wtask[w]
           p == to_fetch[i]
           r == fetch_osrm_route(p, response)
       IN  /\ fut' = [fut EXCEPT ![i] =
                        [st |-> "done",
                         response |-> IF r.requests = 0 THEN "stationary" ELSE response,
                         raised |-> fetch_pair(p, response).raised,
                         result |-> fetch_pair(p, response).result]]
           /\ cache' = CachePut(cache, route_key(p), fetch_pair(p, response).result)
           /\ done_order' = Append(done_order, i)
           /\ resolver_calls' = resolver_calls \cup {p}
           /\ net_requests' = net_requests + r.requests
           /\ first_attempts' = IF call_no = 1 THEN first_attempts + 1 ELSE first_attempts
    /\ wtask' = [wtask EXCEPT ![w] = 0]
    /\ UNCHANGED <<limVars, bfVars, fileVars, tuneVars>>
    /\ UNCHANGED <<trips, max_new_routes, osrm_workers, hpc, missing, to_fetch,
                   to_fallback, call_no, cache_at_call, acquires, limiters_made,
                   pools_made, first_return>>

\* the rest of fetch_pair on a pool thread: fetch_osrm_route and the except
\* branch; the future completes
WorkerFetch(w, response) ==
    /\ hpc = "pool"
    /\ wtask[w] # 0
    /\ LET i == wtask[w]
           p == to_fetch[i]
           r == fetch_osrm_route(p, response)
       IN  /\ fut' = [fut EXCEPT ![i] =
                        [st |-> "done",
                         response |-> IF r.requests = 0 THEN "stationary" ELSE response,
                         raised |-> fetch_pair(p, response).raised,
                         result |-> fetch_pair(p, response).result]]
           /\ done_order' = Append(done_order, i)
           /\ resolver_calls' = resolver_calls \cup {p}
           /\ net_requests' = net_requests + r.requests
           /\ first_attempts' = IF call_no = 1 THEN first_attempts + 1 ELSE first_attempts
    /\ wtask' = [wtask EXCEPT ![w] = 0]
    /\ UNCHANGED <<limVars, bfVars, fileVars, tuneVars>>
    /\ UNCHANGED <<trips, cache, max_new_routes, osrm_workers, hpc, missing, to_fetch,
                   to_fallback, call_no, cache_at_call, acquires, limiters_made,
                   pools_made, first_return>>

\* one round of the as_completed loop on the calling thread: future.result()
\* hands back the result, which goes into the cache under its key, or raises
\* what the task raised
MergeCompleted ==
    /\ hpc = "pool"
    /\ done_order # <<>>
    /\ LET i == Head(done_order)
           result == fut[i].result
       IN  /\ cache' = IF fut[i].raised THEN cache
                        ELSE CachePut(cache, route_key(ResultPair(result)), result)
           /\ fut' = [fut EXCEPT ![i].st = "merged"]
           /\ hpc' = IF fut[i].raised THEN "raised" ELSE hpc
    /\ done_order' = Tail(done_order)
    /\ UNCHANGED <<limVars, bfVars, fileVars, tuneVars>>
    /\ UNCHANGED <<trips, max_new_routes, osrm_workers, missing, to_fetch,
                   to_fallback, wtask, call_no, cache_at_call, resolver_calls,
                   net_requests, acquires, limiters_made, pools_made, first_return,
                   first_attempts>>

\* every future is merged: the pool shuts down, the pairs beyond the cap get
\* their fallback result, hydrate_routes returns the cache
HydrateFinish ==
    /\ hpc = "pool"
    /\ \A i \in 1..Len(fut) : fut[i].st = "merged"
    /\ cache' = MergeFallbacks(cache, to_fallback)
    /\ hpc' = "returned"
    /\ first_return' = IF call_no = 1 THEN cache' ELSE first_return
    /\ UNCHANGED <<limVars, bfVars, fileVars, tuneVars>>
    /\ UNCHANGED <<trips, max_new_routes, osrm_workers, missing, to_fetch, to_fallback,
                   fut, wtask, done_order, call_no, cache_at_call, resolver_calls,
                   net_requests, acquires, limiters_made, pools_made, first_attempts>>

\* hydrate_routes is called a second time, with the same trips and the cache
\* the first call returned
HydrateAgain ==
    /\ hpc = "returned"
    /\ call_no = 1
    /\ call_no' = 2
    /\ hpc' = "call"
    /\ cache_at_call' = cache
    /\ resolver_calls' = {}
    /\ net_requests' = 0
    /\ acquires' = 0
    /\ limiters_made' = 0
    /\ pools_made' = 0
    /\ limiter' = "none"
    /\ fut' = <<>>
    /\ to_fetch' = <<>>
    /\ to_fallback' = <<>>
    /\ UNCHANGED <<clock, osrm_qps, interval, next_ts, lock, tpc, sleep_until, returns, bfVars, fileVars, tuneVars>>
    /\ UNCHANGED <<trips, cache, max_new_routes, osrm_workers, missing, wtask,
                   done_order, first_return, first_attempts>>

InitHydrate ==
    /\ BackfillIdle
    /\ FileIdle
    /\ StartupIdle
    /\ clock = 0
    /\ osrm_qps \in HydrateQps
    /\ limiter = "none"
    /\ interval = 0
    /\ next_ts = 0
    /\ lock = 0
    /\ tpc = [t \in Callers |-> "ready"]
    /\ sleep_until = [t \in Callers |-> 0]
    /\ returns = <<>>
    /\ trips \in RowLists(MaxTrips)
    /\ cache \in InitCaches
    /\ max_new_routes \in CapChoices
    /\ osrm_workers \in WorkerChoices
    /\ hpc = "call"
    /\ missing = <<>>
    /\ to_fetch = <<>>
    /\ to_fallback = <<>>
    /\ fut = <<>>
    /\ wtask = [w \in PoolThreads |-> 0]
    /\ done_order = <<>>
    /\ call_no = 1
    /\ cache_at_call = cache
    /\ resolver_calls = {}
    /\ net_requests = 0
    /\ acquires = 0
    /\ limiters_made = 0
    /\ pools_made = 0
    /\ first_return = <<>>
    /\ first_attempts = 0

NextHydrate ==
    \/ HydrateCall
    \/ \E w \in PoolThreads : WorkerWait(w)
    \/ \E w \in PoolThreads : \E response \in {"ok", "error"} : WorkerFetch(w, response)
    \/ MergeCompleted
    \/ HydrateFinish
    \/ HydrateAgain

SpecHydrate == InitHydrate /\ [][NextHydrate]_vars

\* the same cycle with its scheduling: an idle pool thread takes a queued
\* future and its wait() returns after the sleep, a resolver call returns or
\* fails within its timeout, and the calling thread goes on with
\* as_completed and the end of the with block whenever it can
SpecHydrateFair ==
    /\ SpecHydrate
    /\ WF_vars(\E w \in PoolThreads : WorkerWait(w))
    /\ WF_vars(\E w \in PoolThreads : \E response \in {"ok", "error"} : WorkerFetch(w, response))
    /\ WF_vars(MergeCompleted)
    /\ WF_vars(HydrateFinish)

\* ------------------------------------------------------- backfill_range.py
\* the months of the range are numbered 1..months_n in order (iter_months);
\* 0 stands for None
Months == 1..months_n

\* month_has_output finding no file whatever the directory holds
MonthHasOutputNever(m) == FALSE

\* month_has_output: some daily parquet file of the month exists
month_has_output(m) == output_days[m] > 0

\* the test of line 498
SkipsMonth(m) == resume /\ month_has_output(m)

\* write_backfill_state: the snapshot that replaces the state file
Snapshot(status, completed, current, next) ==
    [status |-> status, total_months |-> months_n, completed_months |-> completed,
     current_month |-> current, next_month |-> next]

\* months[index] if index < len(months) else None
NextAfter(i) == IF i < months_n THEN i + 1 ELSE 0

\* load_route_cache: an absent store is an empty cache
LoadRouteCache(store) == IF store.exists THEN store.entries ELSE {}

\* the route store as a successful save_route_cache leaves it
SavedStore(entries) == [exists |-> TRUE, entries |-> entries]

\* the route store after a failed write: parquet writing creates the target
\* file anew and removes it when the write fails
RemovedStore == [exists |-> FALSE, entries |-> {}]

\* the pause file is created or removed by the operator while the run goes on
TouchPause ==
    /\ bpc \in {"loop", "month"}
    /\ pause_file' = ~pause_file
    /\ pause_held' = FALSE
    /\ UNCHANGED <<months_n, resume, continue_on_error, output_days, bpc, mpc, index,
                   paused, completed_months, state_file, route_store, route_cache,
                   store_at_month, pipelines_started, bf_net_calls, marked,
                   pause_seen_at, last_handled, run_no>>
    /\ UNCHANGED failed
    /\ UNCHANGED <<limVars, hydVars, fileVars, tuneVars>>

\* lines 498-525: the month has output and resume is on; it is counted, the
\* state is written, the pause file is looked at, the loop continues
SkipMonth ==
    /\ bpc = "loop"
    /\ index <= months_n
    /\ SkipsMonth(index)
    /\ completed_months' = completed_months + 1
    /\ marked' = marked \cup {index}
    /\ state_file' = Snapshot("running", completed_months + 1, index, NextAfter(index))
    /\ paused' = (paused \/ pause_file)
    /\ pause_seen_at' = IF pause_file /\ pause_seen_at = 0 THEN index ELSE pause_seen_at
    /\ last_handled' = index
    /\ index' = index + 1
    /\ UNCHANGED <<months_n, resume, continue_on_error, output_days, pause_file, bpc,
                   mpc, route_store, route_cache, store_at_month, pipelines_started,
                   bf_net_calls, run_no>>
    /\ UNCHANGED <<failed, pause_held>>
    /\ UNCHANGED <<limVars, hydVars, fileVars, tuneVars>>

\* lines 527-528: a month to process is reached after a pause was seen
BreakPaused ==
    /\ bpc = "loop"
    /\ index <= months_n
    /\ ~SkipsMonth(index)
    /\ paused
    /\ bpc' = "after_loop"
    /\ UNCHANGED <<months_n, resume, continue_on_error, output_days, pause_file, mpc,
                   index, paused, completed_months, state_file, route_store,
                   route_cache, store_at_month, pipelines_started, bf_net_calls,
                   marked, pause_seen_at, last_handled, run_no>>
    /\ UNCHANGED <<failed, pause_held>>
    /\ UNCHANGED <<limVars, hydVars, fileVars, tuneVars>>

\* lines 530-551: process_month is called for the month
StartMonth ==
    /\ bpc = "loop"
    /\ index <= months_n
    /\ ~SkipsMonth(index)
    /\ ~paused
    /\ bpc' = "month"
    /\ mpc' = "ingest"
    /\ pipelines_started' = pipelines_started \cup {index}
    /\ store_at_month' = route_store
    /\ last_handled' = index
    /\ UNCHANGED <<months_n, resume, continue_on_error, output_days, pause_file, index,
                   paused, completed_months, state_file, route_store, route_cache,
                   bf_net_calls, marked, pause_seen_at, run_no>>
    /\ UNCHANGED <<failed, pause_held>>
    /\ UNCHANGED <<limVars, hydVars, fileVars, tuneVars>>

\* process_month lines 961-1013: discovery, download, parsing, station
\* reference: requests to the data index and the station API
Ingest ==
    /\ bpc = "month"
    /\ mpc = "ingest"
    /\ mpc' = "hydrate"
    /\ bf_net_calls' = bf_net_calls + 1
    /\ UNCHANGED <<months_n, resume, continue_on_error, output_days, pause_file, bpc,
                   index, paused, completed_months, state_file, route_store,
                   route_cache, store_at_month, pipelines_started, marked,
                   pause_seen_at, last_handled, run_no>>
    /\ UNCHANGED <<failed, pause_held>>
    /\ UNCHANGED <<limVars, hydVars, fileVars, tuneVars>>

\* process_month lines 1015-1025: the cache is loaded and hydrated with the
\* routes of the month
Hydrate ==
    /\ bpc = "month"
    /\ mpc = "hydrate"
    /\ route_cache' = LoadRouteCache(route_store) \cup {index}
    /\ bf_net_calls' = bf_net_calls + 1
    /\ mpc' = "save"
    /\ UNCHANGED <<months_n, resume, continue_on_error, output_days, pause_file, bpc,
                   index, paused, completed_months, state_file, route_store,
                   store_at_month, pipelines_started, marked, pause_seen_at,
                   last_handled, run_no>>
    /\ UNCHANGED <<failed, pause_held>>
    /\ UNCHANGED <<limVars, hydVars, fileVars, tuneVars>>

\* process_month line 1026: save_route_cache writes the whole cache
SaveCache ==
    /\ bpc = "month"
    /\ mpc = "save"
    /\ route_store' = SavedStore(route_cache)
    /\ mpc' = "export"
    /\ UNCHANGED <<months_n, resume, continue_on_error, output_days, pause_file, bpc,
                   index, paused, completed_months, state_file, route_cache,
                   store_at_month, pipelines_started, bf_net_calls, marked,
                   pause_seen_at, last_handled, run_no>>
    /\ UNCHANGED <<failed, pause_held>>
    /\ UNCHANGED <<limVars, hydVars, fileVars, tuneVars>>

\* write_daily_parquet: one more daily file of the month is written
ExportDay ==
    /\ bpc = "month"
    /\ mpc = "export"
    /\ output_days[index] < DaysPerMonth
    /\ output_days' = [output_days EXCEPT ![index] = output_days[index] + 1]
    /\ UNCHANGED <<months_n, resume, continue_on_error, pause_file, bpc, mpc, index,
                   paused, completed_months, state_file, route_store, route_cache,
                   store_at_month, pipelines_started, bf_net_calls, marked,
                   pause_seen_at, last_handled, run_no>>
    /\ UNCHANGED <<failed, pause_held>>
    /\ UNCHANGED <<limVars, hydVars, fileVars, tuneVars>>

\* lines 552-579 with the state written before the month is counted
MonthDoneStaleCount ==
    /\ bpc = "month"
    /\ mpc = "export"
    /\ output_days[index] = DaysPerMonth
    /\ completed_months' = completed_months + 1
    /\ marked' = marked \cup {index}
    /\ state_file' = Snapshot("running", completed_months, index, NextAfter(index))
    /\ paused' = pause_file
    /\ pause_seen_at' = IF pause_file /\ pause_seen_at = 0 THEN index ELSE pause_seen_at
    /\ bpc' = IF pause_file THEN "after_loop" ELSE "loop"
    /\ index' = IF pause_file THEN index ELSE index + 1
    /\ UNCHANGED <<months_n, resume, continue_on_error, output_days, pause_file, mpc,
                   route_store, route_cache, store_at_month, pipelines_started,
                   bf_net_calls, last_handled, run_no>>
    /\ UNCHANGED <<failed, pause_held>>
    /\ UNCHANGED <<limVars, hydVars, fileVars, tuneVars>>

\* process_month returns; lines 552-579: the month is counted, the state is
\* written, the pause file is looked at
MonthDone ==
    /\ bpc = "month"
    /\ mpc = "export"
    /\ output_days[index] = DaysPerMonth
    /\ completed_months' = completed_months + 1
    /\ marked' = marked \cup {index}
    /\ state_file' = Snapshot("running", completed_months + 1, index, NextAfter(index))
    /\ paused' = pause_file
    /\ pause_seen_at' = IF pause_file /\ pause_seen_at = 0 THEN index ELSE pause_seen_at
    /\ bpc' = IF pause_file THEN "after_loop" ELSE "loop"
    /\ index' = IF pause_file THEN index ELSE index + 1
    /\ UNCHANGED <<months_n, resume, continue_on_error, output_days, pause_file, mpc,
                   route_store, route_cache, store_at_month, pipelines_started,
                   bf_net_calls, last_handled, run_no>>
    /\ UNCHANGED <<failed, pause_held>>
    /\ UNCHANGED <<limVars, hydVars, fileVars, tuneVars>>

\* the except branch without the test of continue_on_error: the failure is
\* logged and the loop goes on whatever the flag
MonthFailsAlwaysContinues ==
    /\ bpc = "month"
    /\ bpc' = "loop"
    /\ index' = index + 1
    /\ failed' = failed \cup {index}
    /\ UNCHANGED pause_held
    /\ UNCHANGED <<months_n, resume, continue_on_error, output_days, pause_file, mpc,
                   paused, completed_months, state_file, route_store, route_cache,
                   store_at_month, pipelines_started, bf_net_calls, marked,
                   pause_seen_at, last_handled, run_no>>
    /\ UNCHANGED <<limVars, hydVars, fileVars, tuneVars>>

\* the except branch counting the month it logs and skips as completed
MonthFailsCounted ==
    /\ bpc = "month"
    /\ \/ /\ mpc # "save"
          /\ UNCHANGED route_store
       \/ /\ mpc = "save"
          /\ route_store' \in {route_store, RemovedStore}
    /\ \/ /\ continue_on_error
          /\ bpc' = "loop"
          /\ index' = index + 1
          /\ completed_months' = completed_months + 1
       \/ /\ ~continue_on_error
          /\ bpc' = "raised"
          /\ UNCHANGED <<index, completed_months>>
    /\ failed' = failed \cup {index}
    /\ UNCHANGED pause_held
    /\ UNCHANGED <<months_n, resume, continue_on_error, output_days, pause_file, mpc,
                   paused, state_file, route_cache, store_at_month,
                   pipelines_started, bf_net_calls, marked, pause_seen_at,
                   last_handled, run_no>>
    /\ UNCHANGED <<limVars, hydVars, fileVars, tuneVars>>

\* process_month raises at its current step; a failing save may have removed
\* the store. Lines 580-583: the failure is logged and the loop goes on, or
\* it is raised again
MonthFails ==
    /\ bpc = "month"
    /\ \/ /\ mpc # "save"
          /\ UNCHANGED route_store
       \/ /\ mpc = "save"
          /\ route_store' \in {route_store, RemovedStore}
    /\ \/ /\ continue_on_error
          /\ bpc' = "loop"
          /\ index' = index + 1
       \/ /\ ~continue_on_error
          /\ bpc' = "raised"
          /\ UNCHANGED index
    /\ failed' = failed \cup {index}
    /\ UNCHANGED pause_held
    /\ UNCHANGED <<months_n, resume, continue_on_error, output_days, pause_file, mpc,
                   paused, completed_months, state_file, route_cache, store_at_month,
                   pipelines_started, bf_net_calls, marked, pause_seen_at,
                   last_handled, run_no>>
    /\ UNCHANGED <<limVars, hydVars, fileVars, tuneVars>>

\* the loop is over
LoopOver == (bpc = "loop" /\ index > months_n) \/ bpc = "after_loop"

\* lines 585-601: the paused state is written and main returns
FinishPaused ==
    /\ LoopOver
    /\ paused
    /\ state_file' = Snapshot("paused", completed_months, 0,
                              IF completed_months < months_n THEN completed_months + 1 ELSE 0)
    /\ bpc' = "paused"
    /\ UNCHANGED <<months_n, resume, continue_on_error, output_days, pause_file, mpc,
                   index, paused, completed_months, route_store, route_cache,
                   store_at_month, pipelines_started, bf_net_calls, marked,
                   pause_seen_at, last_handled, run_no>>
    /\ UNCHANGED <<failed, pause_held>>
    /\ UNCHANGED <<limVars, hydVars, fileVars, tuneVars>>

\* the end of main without the test of the paused flag
FinishCompletedIgnoringPause ==
    /\ LoopOver
    /\ state_file' = Snapshot("completed", completed_months, 0, 0)
    /\ bpc' = "completed"
    /\ UNCHANGED <<months_n, resume, continue_on_error, output_days, pause_file, mpc,
                   index, paused, completed_months, route_store, route_cache,
                   store_at_month, pipelines_started, bf_net_calls, marked,
                   pause_seen_at, last_handled, run_no>>
    /\ UNCHANGED <<failed, pause_held>>
    /\ UNCHANGED <<limVars, hydVars, fileVars, tuneVars>>

\* lines 603-619: the completed state is written and main returns
FinishCompleted ==
    /\ LoopOver
    /\ ~paused
    /\ state_file' = Snapshot("completed", completed_months, 0, 0)
    /\ bpc' = "completed"
    /\ UNCHANGED <<months_n, resume, continue_on_error, output_days, pause_file, mpc,
                   index, paused, completed_months, route_store, route_cache,
                   store_at_month, pipelines_started, bf_net_calls, marked,
                   pause_seen_at, last_handled, run_no>>
    /\ UNCHANGED <<failed, pause_held>>
    /\ UNCHANGED <<limVars, hydVars, fileVars, tuneVars>>

\* main() is run again with the same arguments: lines 470-496. The operator
\* may have removed the pause file or left it
Rerun ==
    /\ bpc \in {"paused", "completed", "raised"}
    /\ run_no < MaxRuns
    /\ run_no' = run_no + 1
    /\ pause_file' \in {pause_file, FALSE}
    /\ pause_held' = pause_file'
    /\ completed_months' = 0
    /\ state_file' = Snapshot("running", 0, 0, 1)
    /\ paused' = FALSE
    /\ index' = 1
    /\ bpc' = "loop"
    /\ mpc' = "none"
    /\ marked' = {}
    /\ pipelines_started' = {}
    /\ bf_net_calls' = 0
    /\ pause_seen_at' = 0
    /\ last_handled' = 0
    /\ failed' = {}
    /\ UNCHANGED <<months_n, resume, continue_on_error, output_days, route_store,
                   route_cache, store_at_month>>
    /\ UNCHANGED <<limVars, hydVars, fileVars, tuneVars>>

\* the state at line 496 of the first run over an empty output directory
InitBackfill ==
    /\ months_n \in 1..MaxMonths
    /\ resume \in BOOLEAN
    /\ continue_on_error \in BOOLEAN
    /\ output_days = [m \in 1..months_n |-> 0]
    /\ pause_file \in BOOLEAN
    /\ bpc = "loop"
    /\ mpc = "none"
    /\ index = 1
    /\ paused = FALSE
    /\ completed_months = 0
    /\ state_file = Snapshot("running", 0, 0, 1)
    /\ route_store = RemovedStore
    /\ route_cache = {}
    /\ store_at_month = RemovedStore
    /\ pipelines_started = {}
    /\ bf_net_calls = 0
    /\ marked = {}
    /\ pause_seen_at = 0
    /\ last_handled = 0
    /\ failed = {}
    /\ pause_held = pause_file
    /\ run_no = 1
    /\ clock = 0
    /\ osrm_qps = 6
    /\ limiter = "none"
    /\ interval = 0
    /\ next_ts = 0
    /\ lock = 0
    /\ tpc = [t \in Callers |-> "ready"]
    /\ sleep_until = [t \in Callers |-> 0]
    /\ returns = <<>>
    /\ HydrateIdle
    /\ FileIdle
    /\ StartupIdle

NextBackfill ==
    \/ TouchPause
    \/ SkipMonth
    \/ BreakPaused
    \/ StartMonth
    \/ Ingest
    \/ Hydrate
    \/ SaveCache
    \/ ExportDay
    \/ MonthDone
    \/ MonthFails
    \/ FinishPaused
    \/ FinishCompleted
    \/ Rerun

SpecBackfill == InitBackfill /\ [][NextBackfill]_vars

InitLimiter ==
    /\ BackfillIdle
    /\ clock = 0
    /\ osrm_qps \in QpsChoices
    /\ limiter = "none"
    /\ interval = 0
    /\ next_ts = 0
    /\ lock = 0
    /\ tpc = [t \in Callers |-> "ready"]
    /\ sleep_until = [t \in Callers |-> 0]
    /\ returns = <<>>
    /\ HydrateIdle
    /\ FileIdle
    /\ StartupIdle

NextLimiter ==
    \/ RateLimiterInit
    \/ Tick
    \/ \E t \in Callers : WaitEnter(t)
    \/ \E t \in Callers : WaitWake(t)

SpecLimiter == InitLimiter /\ [][NextLimiter]_vars

\* ---------------------------------------- save_route_cache, load_route_cache
\* the columns save_route_cache writes and load_route_cache reads
Columns ==
    {"start_lon", "start_lat", "end_lon", "end_lat", "route_geometry",
     "route_distance_m", "route_duration_s", "route_source"}

\* a row written with the sign of a zero coordinate lost
RowOfUnsigned(r) ==
    LET pos(c) == IF c.mag = 0 THEN [neg |-> FALSE, mag |-> 0] ELSE c
    IN  [r EXCEPT !.start_lon = pos(r.start_lon), !.start_lat = pos(r.start_lat),
                  !.end_lon = pos(r.end_lon), !.end_lat = pos(r.end_lat)]

\* the row save_route_cache builds from a result: the eight fields as they
\* are; parquet keeps doubles and strings bit for bit
RowOf(r) == r

\* the sort key of a row: its four coordinates as numbers
SortKey(row) ==
    <<ToMicro(row.start_lon), ToMicro(row.start_lat), ToMicro(row.end_lon), ToMicro(row.end_lat)>>

\* lexicographic <= on sort keys
KeyLeq(a, b) ==
    \/ a[1] < b[1]
    \/ a[1] = b[1] /\ a[2] < b[2]
    \/ a[1] = b[1] /\ a[2] = b[2] /\ a[3] < b[3]
    \/ a[1] = b[1] /\ a[2] = b[2] /\ a[3] = b[3] /\ a[4] <= b[4]

\* pd.DataFrame(rows).sort_values(by=coordinates): the rows of the cache's
\* values in ascending order; rows equal in all four coordinates (0.0 and
\* -0.0) stay in the order of the dict, which the cache does not fix here
SortedRowLists(c) ==
    LET vals == { RowOf(c[k]) : k \in DOMAIN c }
        n == Cardinality(DOMAIN c)
    IN  { rows \in [1..n -> vals] :
            /\ \A i \in 1..n : \A j \in 1..n : i < j => rows[i] # rows[j]
            /\ \A i \in 1..n : \A j \in 1..n : i < j => KeyLeq(SortKey(rows[i]), SortKey(rows[j])) }

\* save_route_cache: nothing for an empty cache, else the file is replaced by
\* the table of the rows
save_route_cache(file, c, rows) ==
    IF DOMAIN c = {} THEN file
    ELSE [kind |-> "table", columns |-> Columns, rows |-> rows]

\* the loop of load_route_cache leaving out the rows whose source is a
\* fallback
RECURSIVE LoadRowsSkipFallbacks(_, _)
LoadRowsSkipFallbacks(c, rows) ==
    IF rows = <<>> THEN c
    ELSE IF rows[1].route_source \in {"fallback_straight_line", "fallback_max_new_routes"}
    THEN LoadRowsSkipFallbacks(c, Tail(rows))
    ELSE LoadRowsSkipFallbacks(CachePut(c, route_key(ResultPair(rows[1])), rows[1]),
                               Tail(rows))

\* the loop of load_route_cache: each row becomes a RouteResult stored under
\* the key of its own coordinates, later rows replacing earlier ones
RECURSIVE LoadRows(_, _)
LoadRows(c, rows) ==
    IF rows = <<>> THEN c
    ELSE LoadRows(CachePut(c, route_key(ResultPair(rows[1])), rows[1]), Tail(rows))

\* load_route_cache: an empty cache when the path does not exist; otherwise
\* pd.read_parquet, which raises on a file that is not parquet, and the loop
\* over the rows, which raises on the first row when a column is absent
load_route_cache(file) ==
    IF file.kind = "missing" THEN [raised |-> FALSE, cache |-> <<>>]
    ELSE IF file.kind = "unreadable" THEN [raised |-> TRUE, cache |-> <<>>]
    ELSE IF file.rows # <<>> /\ ~(Columns \subseteq file.columns)
    THEN [raised |-> TRUE, cache |-> <<>>]
    ELSE [raised |-> FALSE, cache |-> LoadRows(<<>>, file.rows)]

\* process_month twice over the same trips: line 1026 saves the cache the
\* first hydration returned, and the next cycle loads the store (line 1016)
\* and calls hydrate_routes with what it loaded (lines 1017-1025)
HydrateNextCycle ==
    /\ hpc = "returned"
    /\ call_no = 1
    /\ \E rows \in SortedRowLists(cache) :
          cache_file' = save_route_cache(cache_file, cache, rows)
    /\ ~load_route_cache(cache_file').raised
    /\ cache' = load_route_cache(cache_file').cache
    /\ mem_cache' = cache'
    /\ saved_cache' = cache
    /\ file_intact' = (DOMAIN cache # {})
    /\ fpc' = "loaded"
    /\ call_no' = 2
    /\ hpc' = "call"
    /\ cache_at_call' = cache'
    /\ resolver_calls' = {}
    /\ net_requests' = 0
    /\ acquires' = 0
    /\ limiters_made' = 0
    /\ pools_made' = 0
    /\ limiter' = "none"
    /\ fut' = <<>>
    /\ to_fetch' = <<>>
    /\ to_fallback' = <<>>
    /\ UNCHANGED <<clock, osrm_qps, interval, next_ts, lock, tpc, sleep_until, returns,
                   bfVars, tuneVars>>
    /\ UNCHANGED <<trips, max_new_routes, osrm_workers, missing, wtask, done_order,
                   first_return, first_attempts>>

\* hydration cycles, the second one through the store or on the returned cache
NextCycles ==
    \/ NextHydrate
    \/ HydrateNextCycle

SpecCycles == InitHydrate /\ [][NextCycles]_vars

\* results a cache may hold, one of each source, with 0.0 and -0.0 twins
FileResults ==
    { FallbackResult(RoundPair(<<4, 20, 10, 20>>), "fallback_straight_line"),
      FallbackResult(RoundPair(<<-4, 20, 10, 20>>), "fallback_max_new_routes"),
      OsrmResult(RoundPair(<<10, 20, 4, 20>>)),
      fetch_osrm_route(RoundPair(<<10, 20, 14, 20>>), "ok").result }

FileCaches == { CacheOf(S) : S \in SUBSET FileResults }

\* what may be at cache_path when a run starts
InitFiles ==
    { [kind |-> "missing"], [kind |-> "unreadable"] }
    \cup { [kind |-> "table", columns |-> Columns, rows |-> rows] :
             rows \in UNION { SortedRowLists(c) : c \in FileCaches } }

\* process_month line 1026 / save_route_cache returns
CallSave ==
    /\ fpc \in {"ready", "loaded"}
    /\ \E rows \in SortedRowLists(mem_cache) :
          cache_file' = save_route_cache(cache_file, mem_cache, rows)
    /\ saved_cache' = mem_cache
    /\ file_intact' = (DOMAIN mem_cache # {})
    /\ fpc' = "saved"
    /\ UNCHANGED mem_cache
    /\ UNCHANGED <<limVars, hydVars, bfVars, tuneVars>>

\* frame.to_parquet raises while writing (disk full, I/O error): the target
\* was opened for writing, it is left removed or cut short
SaveFails ==
    /\ fpc \in {"ready", "loaded"}
    /\ DOMAIN mem_cache # {}
    /\ cache_file' \in { [kind |-> "missing"], [kind |-> "unreadable"] }
    /\ file_intact' = FALSE
    /\ fpc' = "save_raised"
    /\ UNCHANGED <<mem_cache, saved_cache>>
    /\ UNCHANGED <<limVars, hydVars, bfVars, tuneVars>>

\* process_month line 1016 / load_route_cache returns or raises
CallLoad ==
    /\ fpc \in {"ready", "saved", "save_raised"}
    /\ LET r == load_route_cache(cache_file)
       IN  /\ fpc' = IF r.raised THEN "load_raised" ELSE "loaded"
           /\ mem_cache' = IF r.raised THEN mem_cache ELSE r.cache
    /\ UNCHANGED <<cache_file, saved_cache, file_intact>>
    /\ UNCHANGED <<limVars, hydVars, bfVars, tuneVars>>

\* between two runs the file is deleted, overwritten with something that is
\* not parquet, or replaced by a table without one of the columns
Damage ==
    /\ fpc \in {"ready", "saved"}
    /\ \/ cache_file' \in { [kind |-> "missing"], [kind |-> "unreadable"] }
       \/ /\ cache_file.kind = "table"
          /\ cache_file.columns = Columns
          /\ \E col \in cache_file.columns :
                cache_file' = [cache_file EXCEPT !.columns = cache_file.columns \ {col}]
    /\ cache_file' # cache_file
    /\ file_intact' = FALSE
    /\ UNCHANGED <<mem_cache, fpc, saved_cache>>
    /\ UNCHANGED <<limVars, hydVars, bfVars, tuneVars>>

InitCacheFile ==
    /\ cache_file \in InitFiles
    /\ mem_cache \in FileCaches
    /\ fpc = "ready"
    /\ saved_cache = <<>>
    /\ file_intact = FALSE
    /\ clock = 0
    /\ osrm_qps = 6
    /\ limiter = "none"
    /\ interval = 0
    /\ next_ts = 0
    /\ lock = 0
    /\ tpc = [t \in Callers |-> "ready"]
    /\ sleep_until = [t \in Callers |-> 0]
    /\ returns = <<>>
    /\ HydrateIdle
    /\ BackfillIdle
    /\ StartupIdle

NextCacheFile ==
    \/ CallSave
    \/ SaveFails
    \/ CallLoad
    \/ Damage

SpecCacheFile == InitCacheFile /\ [][NextCacheFile]_vars

\* ------------------------------------- main() startup and auto_tune_osrm
\* worker_candidates: ascending worker counts
worker_candidates == [i \in 1..NumWorkerLevels |-> 4 * i]

\* qps_candidates: max(20.0, args.osrm_qps) and a higher level, ascending
qps_candidates == <<Max(20, qps_arg), 80>>

\* the (workers, qps) pairs in the order of the two nested loops
Candidates ==
    [i \in 1..(Len(worker_candidates) * Len(qps_candidates)) |->
        <<worker_candidates[((i - 1) \div Len(qps_candidates)) + 1],
          qps_candidates[((i - 1) % Len(qps_candidates)) + 1]>>]

\* pairs the probe list may hold: one with distinct ends, one with equal ends
ProbePairs == { RoundPair(<<4, 20, 10, 20>>), RoundPair(<<10, 20, 14, 20>>) }

\* elapsed time of one benchmark_config run, in ticks
ElapsedChoices == {1, 3}

\* run_pair answering True whatever the resolver did
RunPairAlwaysTrue(p, response) == TRUE

\* run_pair: True when fetch_osrm_route returned, False when it raised
run_pair(p, response) == ~fetch_osrm_route(p, response).raised

\* a probe whose result is merged into the route store
ProbeStoreMerged(store, p, response) ==
    [exists |-> TRUE, entries |-> store.entries \cup {0}]

\* the route store after one probe: run_pair drops the RouteResult, nothing
\* is written
ProbeStore(store, p, response) == store

\* success_rate = success / total if total else 0.0, tested against 0.995
MeetsBar(row) ==
    /\ row.success + row.failure > 0
    /\ 1000 * row.success >= 995 * (row.success + row.failure)

\* throughput_success_rps = success / elapsed of a <= that of b
ThroughputLeq(a, b) == a.success * b.elapsed_s <= b.success * a.elapsed_s

\* acceptable with the success-rate bar left out
AcceptableAll(rows) == rows

\* acceptable = [row for row in results if row["success_rate"] >= 0.995]
Acceptable(rows) == SelectSeq(rows, MeetsBar)

\* max(chosen_pool, key=throughput): the first row of greatest throughput
MaxThroughput(pool) ==
    LET best == CHOOSE i \in 1..Len(pool) :
                   /\ \A j \in 1..Len(pool) : ThroughputLeq(pool[j], pool[i])
                   /\ \A j \in 1..(i - 1) : ~ThroughputLeq(pool[i], pool[j])
    IN  pool[best]

\* chosen_pool = acceptable if acceptable else results
ChosenPool(rows) == IF Acceptable(rows) # <<>> THEN Acceptable(rows) ELSE rows

\* args.osrm_qps as process_month gets it: the tuned value after auto-tune
EffectiveQps == IF tuned # <<>> THEN tuned[2] ELSE qps_arg

\* lines 453-457: the end month is taken from the arguments, or discovered
\* by listing the source-data index month by month back to the start month;
\* nothing is listed when the start month is in the future
ResolveEnd ==
    /\ spc = "start"
    /\ \/ /\ ~end_latest
          /\ spc' = "resolved"
          /\ UNCHANGED <<requests_sent, startup_error>>
       \/ /\ end_latest
          /\ requests_sent' = requests_sent \cup {"index"}
          /\ spc' = "resolved"
          /\ UNCHANGED startup_error
       \/ /\ end_latest
          /\ requests_sent' \in {requests_sent, requests_sent \cup {"index"}}
          /\ spc' = "raised"
          /\ startup_error' = "RuntimeError_discover"
    /\ UNCHANGED <<end_latest, start_after_end, qps_arg, tune_mode, probe_n, cand, probe,
                   success, failure, probe_raised, results, chosen, degraded, tuned,
                   store_at_start>>
    /\ UNCHANGED <<limVars, hydVars, bfVars, fileVars>>

\* auto_tune_osrm up to the first benchmark_config: the probe list is read
\* from the route store or built from the fixed points
TuneStart ==
    /\ spc = "resolved"
    /\ tune_mode # "off"
    /\ spc' = "bench"
    /\ cand' = 1
    /\ probe' = 0
    /\ success' = 0
    /\ failure' = 0
    /\ probe_raised' = <<0>>
    /\ UNCHANGED <<end_latest, start_after_end, qps_arg, tune_mode, probe_n,
                   requests_sent, results, chosen, degraded, tuned, startup_error,
                   store_at_start>>
    /\ UNCHANGED <<limVars, hydVars, bfVars, fileVars>>

\* benchmark_config: one pair of pool.map(run_pair, pairs) is counted
Probe(p, response) ==
    /\ spc = "bench"
    /\ probe < probe_n
    /\ probe' = probe + 1
    /\ success' = IF run_pair(p, response) THEN success + 1 ELSE success
    /\ failure' = IF run_pair(p, response) THEN failure ELSE failure + 1
    /\ probe_raised' = [probe_raised EXCEPT ![cand] =
                          IF fetch_osrm_route(p, response).raised THEN @ + 1 ELSE @]
    /\ requests_sent' = IF fetch_osrm_route(p, response).requests > 0
                        THEN requests_sent \cup {"routing"}
                        ELSE requests_sent
    /\ route_store' = ProbeStore(route_store, p, response)
    /\ UNCHANGED <<spc, end_latest, start_after_end, qps_arg, tune_mode, probe_n, cand,
                   results, chosen, degraded, tuned, startup_error, store_at_start>>
    /\ UNCHANGED <<months_n, resume, continue_on_error, output_days, pause_file, bpc, mpc,
                   index, paused, completed_months, state_file, route_cache,
                   store_at_month, pipelines_started, bf_net_calls, marked,
                   pause_seen_at, last_handled, failed, pause_held, run_no>>
    /\ UNCHANGED <<limVars, hydVars, fileVars>>

\* benchmark_config returns its metrics; auto_tune_osrm appends them and goes
\* on with the next candidate
BenchDone(elapsed) ==
    /\ spc = "bench"
    /\ probe = probe_n
    /\ results' = Append(results,
                         [workers |-> Candidates[cand][1], qps |-> Candidates[cand][2],
                          success |-> success, failure |-> failure, elapsed_s |-> elapsed])
    /\ IF cand < Len(Candidates)
       THEN /\ cand' = cand + 1
            /\ probe_raised' = Append(probe_raised, 0)
            /\ UNCHANGED spc
       ELSE /\ spc' = "select"
            /\ UNCHANGED <<cand, probe_raised>>
    /\ probe' = 0
    /\ success' = 0
    /\ failure' = 0
    /\ UNCHANGED <<end_latest, start_after_end, qps_arg, tune_mode, probe_n,
                   requests_sent, chosen, degraded, tuned, startup_error, store_at_start>>
    /\ UNCHANGED <<limVars, hydVars, bfVars, fileVars>>

\* lines 426-443 and 459-467: the selection, the warning, the return; main
\* takes the tuned values and returns at once in auto-tune-only mode
TuneSelect ==
    /\ spc = "select"
    /\ chosen' = MaxThroughput(ChosenPool(results))
    /\ degraded' = (Acceptable(results) = <<>>)
    /\ tuned' = <<chosen'.workers, chosen'.qps>>
    /\ spc' = IF tune_mode = "only" THEN "returned" ELSE "tuned"
    /\ UNCHANGED <<end_latest, start_after_end, qps_arg, tune_mode, probe_n,
                   requests_sent, cand, probe, success, failure, probe_raised, results,
                   startup_error, store_at_start>>
    /\ UNCHANGED <<limVars, hydVars, bfVars, fileVars>>

\* line 470, iter_months: ValueError when the start month is after the end
IterMonths ==
    /\ \/ spc = "resolved" /\ tune_mode = "off"
       \/ spc = "tuned"
    /\ IF start_after_end
       THEN /\ spc' = "raised"
            /\ startup_error' = "ValueError_range"
       ELSE /\ spc' = "loop"
            /\ UNCHANGED startup_error
    /\ UNCHANGED <<end_latest, start_after_end, qps_arg, tune_mode, probe_n,
                   requests_sent, cand, probe, success, failure, probe_raised, results,
                   chosen, degraded, tuned, store_at_start>>
    /\ UNCHANGED <<limVars, hydVars, bfVars, fileVars>>

\* process_month of the first month, lines 961-1013: the source-data index is
\* listed, the files are downloaded, the station API is read
FirstIngest ==
    /\ spc = "loop"
    /\ requests_sent' = requests_sent \cup {"index", "stations"}
    /\ spc' = "hydrate"
    /\ UNCHANGED <<end_latest, start_after_end, qps_arg, tune_mode, probe_n, cand, probe,
                   success, failure, probe_raised, results, chosen, degraded, tuned,
                   startup_error, store_at_start>>
    /\ UNCHANGED <<limVars, hydVars, bfVars, fileVars>>

\* hydrate_routes of the first month, lines 815-825: with nothing missing it
\* returns before the limiter is built; otherwise RateLimiter(osrm_qps)
\* raises for a non-positive qps, or the pairs are requested
FirstHydrate(any_missing) ==
    /\ spc = "hydrate"
    /\ IF any_missing /\ EffectiveQps <= 0
       THEN /\ spc' = "raised"
            /\ startup_error' = "ValueError_qps"
            /\ UNCHANGED requests_sent
       ELSE /\ spc' = "running"
            /\ requests_sent' = IF any_missing
                                THEN requests_sent \cup {"routing"}
                                ELSE requests_sent
            /\ UNCHANGED startup_error
    /\ UNCHANGED <<end_latest, start_after_end, qps_arg, tune_mode, probe_n, cand, probe,
                   success, failure, probe_raised, results, chosen, degraded, tuned,
                   store_at_start>>
    /\ UNCHANGED <<limVars, hydVars, bfVars, fileVars>>

\* main() is started: any combination of the arguments, with or without a
\* route store left by an earlier run
InitStartup ==
    /\ spc = "start"
    /\ end_latest \in BOOLEAN
    /\ start_after_end \in BOOLEAN
    /\ end_latest => ~start_after_end
    /\ qps_arg \in {0, 10, 30}
    /\ tune_mode \in {"off", "tune", "only"}
    /\ probe_n \in 0..MaxProbes
    /\ tune_mode = "off" => probe_n = 0
    /\ requests_sent = {}
    /\ cand = 0
    /\ probe = 0
    /\ success = 0
    /\ failure = 0
    /\ probe_raised = <<>>
    /\ results = <<>>
    /\ chosen = <<>>
    /\ degraded = FALSE
    /\ tuned = <<>>
    /\ startup_error = "none"
    /\ route_store \in {RemovedStore, SavedStore({1})}
    /\ store_at_start = route_store
    /\ months_n = 0
    /\ resume = FALSE
    /\ continue_on_error = FALSE
    /\ output_days = <<>>
    /\ pause_file = FALSE
    /\ bpc = "idle"
    /\ mpc = "none"
    /\ index = 0
    /\ paused = FALSE
    /\ completed_months = 0
    /\ state_file = [status |-> "none"]
    /\ route_cache = {}
    /\ store_at_month = [exists |-> FALSE, entries |-> {}]
    /\ pipelines_started = {}
    /\ bf_net_calls = 0
    /\ marked = {}
    /\ pause_seen_at = 0
    /\ last_handled = 0
    /\ failed = {}
    /\ pause_held = FALSE
    /\ run_no = 0
    /\ clock = 0
    /\ osrm_qps = 6
    /\ limiter = "none"
    /\ interval = 0
    /\ next_ts = 0
    /\ lock = 0
    /\ tpc = [t \in Callers |-> "ready"]
    /\ sleep_until = [t \in Callers |-> 0]
    /\ returns = <<>>
    /\ HydrateIdle
    /\ FileIdle

NextStartup ==
    \/ ResolveEnd
    \/ TuneStart
    \/ \E p \in ProbePairs : \E response \in {"ok", "error"} : Probe(p, response)
    \/ \E elapsed \in ElapsedChoices : BenchDone(elapsed)
    \/ TuneSelect
    \/ IterMonths
    \/ \E any_missing \in BOOLEAN : FirstHydrate(any_missing)
    \/ FirstIngest

SpecStartup == InitStartup /\ [][NextStartup]_vars

\* ------------------------------------------------------------------ C1
\* C1: any two returns of wait() on one limiter are at least one interval
\* (1/qps) apart, also after the limiter was idle for longer than that, and
\* so N returns span at least (N-1) intervals.
C1_ReturnsSpaced ==
    /\ \A i \in 1..Len(returns) : \A j \in 1..Len(returns) :
          i < j => returns[j] - returns[i] >= interval
    /\ Len(returns) >= 1 =>
          returns[Len(returns)] - returns[1] >= (Len(returns) - 1) * interval

\* a call returned after the limiter sat idle for more than one interval past
\* its eligible instant, and a later call from another caller had to sleep
C1_Witness ==
    /\ Len(returns) = MaxCalls
    /\ returns[2] - returns[1] > 2 * interval
    /\ returns[3] - returns[2] = interval


\* the keys of a list of pairs
KeysOf(pairs) == {route_key(pairs[i]) : i \in 1..Len(pairs)}

\* the pairs of a list
PairsOf(pairs) == {pairs[i] : i \in 1..Len(pairs)}

\* ------------------------------------------------------------------ C2
\* C2: a second call of hydrate_routes with the same trips, on the cache the
\* first call returned, returns without building a limiter or a pool, makes
\* no resolver call and no request, and returns a cache with the same keys
\* and values.
C2_SecondCallNoOp ==
    (call_no = 2 /\ hpc # "call") =>
        /\ hpc = "returned"
        /\ resolver_calls = {}
        /\ net_requests = 0
        /\ acquires = 0
        /\ limiters_made = 0
        /\ pools_made = 0
        /\ DOMAIN cache = DOMAIN first_return
        /\ \A k \in DOMAIN cache : cache[k] = first_return[k]

\* the second call returned after a first call that fetched a pair, fell back
\* on another beyond the cap and found one already cached
C2_Witness ==
    /\ call_no = 2
    /\ hpc = "returned"
    /\ first_attempts > 0
    /\ \E k \in DOMAIN cache : cache[k].route_source = "fallback_max_new_routes"
    /\ \E k \in DOMAIN cache : cache[k].route_source = "osrm"

\* ------------------------------------------------------------------ C6
\* C6: with M missing pairs and an integer cap K < M, exactly the first K
\* missing pairs are submitted to the resolver and exactly the other M-K get
\* a fallback_max_new_routes result without a resolver call or a limiter
\* acquire; with no cap or K >= M all M are submitted and none is
\* cap-fallbacked.
C6_CapSplitsExactly ==
    (hpc = "returned" /\ call_no = 1 /\ missing # <<>>) =>
        LET M == Len(missing)
            capped == {k \in KeysOf(missing) :
                          cache[k].route_source = "fallback_max_new_routes"}
        IN  IF max_new_routes # <<>> /\ max_new_routes[1] < M
            THEN LET K == max_new_routes[1]
                 IN  /\ Len(to_fetch) = K
                     /\ Cardinality(resolver_calls) = K
                     /\ acquires = K
                     /\ \A i \in 1..M : (i <= K) <=> (missing[i] \in resolver_calls)
                     /\ Cardinality(capped) = M - K
                     /\ \A i \in 1..M : (i > K) <=> (route_key(missing[i]) \in capped)
            ELSE /\ to_fetch = missing
                 /\ resolver_calls = PairsOf(missing)
                 /\ capped = {}

\* C6, amended: the same split for every integer cap 0 <= K < M (and for no
\* cap or K >= M); a negative cap is a Python slice bound counted from the
\* end of the list.
C6_CapSplitsNonNegative ==
    (max_new_routes = <<>> \/ max_new_routes[1] >= 0) => C6_CapSplitsExactly

\* the call returned with a cap of 1 on two missing pairs: one was resolved,
\* one got the cap fallback
C6_Witness ==
    /\ hpc = "returned"
    /\ call_no = 1
    /\ max_new_routes = <<1>>
    /\ Len(missing) = 2
    /\ resolver_calls = {missing[1]}
    /\ cache[route_key(missing[2])].route_source = "fallback_max_new_routes"

\* ------------------------------------------------------------------ C7
\* C7: a submitted pair whose resolver call fails gets a result with source
\* fallback_straight_line, distance 0, duration 0 and a geometry of at most
\* two points that are the pair's end points; the failure does not leave the
\* task, so the call returns with every submitted pair merged.
C7_FailureFallsBack ==
    /\ \A i \in 1..Len(fut) :
          (fut[i].st \in {"done", "merged"} /\ fut[i].response = "error") =>
              LET r == fut[i].result
                  p == to_fetch[i]
                  pts == PolylineDecode(r.route_geometry)
              IN  /\ ~fut[i].raised
                  /\ r.route_source = "fallback_straight_line"
                  /\ r.route_distance_m = 0
                  /\ r.route_duration_s = 0
                  /\ ResultPair(r) = p
                  /\ Len(pts) \in {1, 2}
                  /\ pts[1] = <<ToMicro(p[2]), ToMicro(p[1])>>
                  /\ pts[Len(pts)] = <<ToMicro(p[4]), ToMicro(p[3])>>
    /\ hpc = "raised" => (osrm_qps <= 0 \/ osrm_workers <= 0)
    /\ (hpc = "returned" /\ call_no = 1 /\ missing # <<>>) =>
          \A i \in 1..Len(to_fetch) :
              /\ route_key(to_fetch[i]) \in DOMAIN cache
              /\ cache[route_key(to_fetch[i])] = fut[i].result

\* the call returned with one pair whose request failed and another whose
\* request succeeded
C7_Witness ==
    /\ hpc = "returned"
    /\ call_no = 1
    /\ \E i \in 1..Len(fut) :
          /\ fut[i].response = "error"
          /\ cache[route_key(to_fetch[i])].route_source = "fallback_straight_line"
    /\ \E i \in 1..Len(fut) :
          /\ fut[i].response = "ok"
          /\ cache[route_key(to_fetch[i])].route_source = "osrm"

\* ------------------------------------------------------------------ C8
\* C8: when hydrate_routes returns, every row of the input, rounded to six
\* decimals, has an entry in the cache under the key derived from it, so
\* process_month never takes its fallback_missing branch.
C8_EveryPairCached ==
    hpc = "returned" =>
        \A i \in 1..Len(trips) : route_key(RoundPair(trips[i])) \in DOMAIN cache

\* ------------------------------------------------------------------ C9
\* C9: a call of hydrate_routes never resolves a pair whose key was in the
\* cache when the call started, every such key maps to the same result
\* afterwards, and only keys of the missing list are added.
C9_WriteOnce ==
    /\ \A k \in DOMAIN cache_at_call :
          k \in DOMAIN cache /\ cache[k] = cache_at_call[k]
    /\ (DOMAIN cache \ DOMAIN cache_at_call) \subseteq KeysOf(missing)
    /\ \A p \in resolver_calls : route_key(p) \notin DOMAIN cache_at_call

\* the call returned with new keys added next to an entry that was cached
\* before and that a row of the input asks for
C9_Witness ==
    /\ hpc = "returned"
    /\ call_no = 1
    /\ DOMAIN cache # DOMAIN cache_at_call
    /\ resolver_calls # {}
    /\ \E i \in 1..Len(trips) : route_key(RoundPair(trips[i])) \in DOMAIN cache_at_call


\* ------------------------------------------------------------------ C3
\* C3: with resume on, when the loop reaches a month whose output exists, it
\* does not call the pipeline for it and sends no request, it adds exactly
\* one to completed_months, and it moves on to the month after it.
C3_ResumeSkips ==
    [][ ( /\ bpc = "loop"
          /\ index <= months_n
          /\ resume
          /\ output_days[index] > 0
          /\ (index' # index \/ bpc' # bpc) )
        => ( /\ pipelines_started' = pipelines_started
             /\ bf_net_calls' = bf_net_calls
             /\ route_store' = route_store
             /\ completed_months' = completed_months + 1
             /\ state_file'.completed_months = completed_months + 1
             /\ index' = index + 1
             /\ bpc' = "loop" ) ]_vars

\* a resumed run skipped the first month without a request and went on to
\* process the second
C3_Witness ==
    /\ run_no = 2
    /\ resume
    /\ 1 \in marked
    /\ 1 \notin pipelines_started
    /\ 2 \in pipelines_started
    /\ bpc = "month"
    /\ completed_months = 1

\* ------------------------------------------------------------------ C4
\* C4: once a check at a month's boundary has seen the pause file, no later
\* month of the range is processed or counted as completed in that run.
C4_PauseStopsAtBoundary ==
    pause_seen_at > 0 =>
        \A m \in marked \cup pipelines_started : m <= pause_seen_at

\* ------------------------------------------------------------------ C5
\* C5: when a run ends paused, the last snapshot has status paused,
\* completed_months equal to the number of months finished, and next_month
\* equal to the month after the last month handled (None after the last
\* month), whatever resume and continue-on-error are.
C5_PausedFinalState ==
    bpc = "paused" =>
        /\ state_file.status = "paused"
        /\ state_file.completed_months = Cardinality(marked)
        /\ state_file.next_month = NextAfter(last_handled)

\* ------------------------------------------------------------------ C10
\* C10: when the pipeline of a month fails fatally, the route store still
\* holds every entry it held when that month started, and the state file
\* holds the snapshot of the last boundary with the count of the months
\* completed before.
C10_PriorProgressDurable ==
    bpc = "raised" =>
        /\ LoadRouteCache(store_at_month) \subseteq LoadRouteCache(route_store)
        /\ state_file.status = "running"
        /\ state_file.completed_months = Cardinality(marked)
        /\ state_file.completed_months = completed_months


\* ------------------------------------------------------------------ C11
\* C11: every step that ends the handling of a month and lets the run go on
\* (the month was skipped, processed, or failed under continue-on-error)
\* writes a snapshot for that month and looks at the pause file.
C11_BoundaryAfterEveryPeriod ==
    [][ ( \/ (bpc = "loop" /\ index' = index + 1)
          \/ (bpc = "month" /\ bpc' \in {"loop", "after_loop"}) )
        => ( /\ state_file'.current_month = index
             /\ state_file'.completed_months = completed_months'
             /\ (pause_file => paused') ) ]_vars

\* ------------------------------------------------------------------ C12
\* C12: when process_month raises, then without continue-on-error the run
\* ends raised, writes no state, starts no other month and does nothing more;
\* with continue-on-error the month is not counted and the loop goes on with
\* the next month.
C12_FailurePolicy ==
    [][ /\ (failed' # failed /\ run_no' = run_no) =>
              IF continue_on_error
              THEN /\ bpc' = "loop"
                   /\ index' = index + 1
                   /\ completed_months' = completed_months
                   /\ marked' = marked
                   /\ index \notin marked'
              ELSE /\ bpc' = "raised"
                   /\ state_file' = state_file
                   /\ state_file.status = "running"
                   /\ pipelines_started' = pipelines_started
                   /\ \A m \in pipelines_started : m <= index
                   /\ completed_months' = completed_months
        /\ bpc = "raised" => run_no' = run_no + 1 ]_vars

\* under continue-on-error the first month failed, was not counted, and the
\* second month is being processed
C12_Witness ==
    /\ continue_on_error
    /\ 1 \in failed
    /\ bpc = "month"
    /\ index = 2
    /\ completed_months = 0
    /\ 2 \in pipelines_started

\* ------------------------------------------------------------------ C13
\* C13: a run that ends completed has gone through all months without any
\* boundary check seeing the pause file, and its last snapshot has status
\* completed and no next month; a run that ends with all months gone through
\* and no pause seen does not end paused.
C13_Completion ==
    /\ bpc = "completed" =>
          /\ pause_seen_at = 0
          /\ ~paused
          /\ index > months_n
          /\ state_file.status = "completed"
          /\ state_file.next_month = 0
    /\ bpc = "paused" =>
          /\ pause_seen_at > 0
          /\ state_file.status = "paused"
    /\ state_file.status = "completed" => bpc = "completed"

\* two months were completed, the pause file appeared after the last boundary
\* check, and the run ended completed
C13_Witness ==
    /\ bpc = "completed"
    /\ pause_file
    /\ months_n = 2
    /\ marked = {1, 2}
    /\ pause_seen_at = 0


\* ------------------------------------------------------------------ C20
\* C20: whenever the resolver is called with a pair whose start equals its
\* end, the result has source stationary, distance 0, duration 0 and a
\* geometry of one point, and no request is sent to the routing service.
C20_StationaryNoRequest ==
    [][ \A w \in PoolThreads :
          ( /\ hpc = "pool"
            /\ wtask[w] # 0
            /\ wtask'[w] = 0
            /\ FloatEq(to_fetch[wtask[w]][1], to_fetch[wtask[w]][3])
            /\ FloatEq(to_fetch[wtask[w]][2], to_fetch[wtask[w]][4]) )
          => ( /\ net_requests' = net_requests
               /\ ~fut'[wtask[w]].raised
               /\ fut'[wtask[w]].result.route_source = "stationary"
               /\ fut'[wtask[w]].result.route_distance_m = 0
               /\ fut'[wtask[w]].result.route_duration_s = 0
               /\ Len(fut'[wtask[w]].result.route_geometry) = 1
               /\ ResultPair(fut'[wtask[w]].result) = to_fetch[wtask[w]] ) ]_vars

\* a call whose only missing pair had equal ends returned: the pair is in the
\* cache as stationary and no request was sent
C20_Witness ==
    /\ hpc = "returned"
    /\ call_no = 1
    /\ net_requests = 0
    /\ resolver_calls # {}
    /\ \E k \in DOMAIN cache : cache[k].route_source = "stationary"


\* ------------------------------------------------------------------ C14
\* C14: load_route_cache never raises: for a store that is missing,
\* unreadable or without an expected column it returns an empty cache.
C14_LoadNeverRaises ==
    /\ fpc # "load_raised"
    /\ (fpc = "loaded" /\ ( \/ cache_file.kind \in {"missing", "unreadable"}
                             \/ ~(Columns \subseteq cache_file.columns) ))
          => DOMAIN mem_cache = {}

C15_ConfigErrorsBeforeNetwork ==
    /\ (qps_arg <= 0 \/ start_after_end) => requests_sent = {}
    /\ startup_error # "none" => requests_sent = {}

\* ------------------------------------------------------------------ C16
\* C16: the candidate auto_tune_osrm selects is, when some candidate has a
\* success rate of at least 0.995, one of greatest throughput among those
\* (whatever the throughput of the others), and otherwise one of greatest
\* throughput of all, with the warning logged; the workers and qps returned
\* are the selected candidate's.
C16_AutoTuneSelection ==
    chosen # <<>> =>
        LET bar(r) == /\ r.success + r.failure > 0
                      /\ 1000 * r.success >= 995 * (r.success + r.failure)
            leq(a, b) == a.success * b.elapsed_s <= b.success * a.elapsed_s
            rows == { results[i] : i \in 1..Len(results) }
            good == { r \in rows : bar(r) }
        IN  /\ chosen \in rows
            /\ IF good # {}
               THEN /\ chosen \in good
                    /\ \A r \in good : leq(r, chosen)
                    /\ ~degraded
               ELSE /\ \A r \in rows : leq(r, chosen)
                    /\ degraded
            /\ tuned = <<chosen.workers, chosen.qps>>

\* a candidate under the bar had a greater throughput than the selected one,
\* which met the bar
C16_Witness ==
    /\ chosen # <<>>
    /\ ~degraded
    /\ chosen.failure = 0
    /\ \E i \in 1..Len(results) :
          /\ results[i].failure > 0
          /\ results[i].success * chosen.elapsed_s > chosen.success * results[i].elapsed_s

\* ------------------------------------------------------------------ C17
\* C17: from the start of auto_tune_osrm to its return the route store is
\* what it was when main() started: not created, not written.
C17_TuneLeavesStore ==
    spc \in {"bench", "select", "tuned", "returned"} => route_store = store_at_start

\* auto-tune-only returned after probes that succeeded and probes that
\* failed, with a route store present
C17_Witness ==
    /\ spc = "returned"
    /\ route_store.exists
    /\ Len(results) = Len(Candidates)
    /\ \E i \in 1..Len(results) : results[i].success > 0
    /\ \E i \in 1..Len(results) : results[i].failure > 0

\* ------------------------------------------------------------------ C18
\* C18: in every benchmark_config run each probe whose resolver call raised
\* is counted as a failure and every other probe as a success, the run
\* returns its metrics, and success + failure is the number of probe pairs.
C18_ProbeFailuresCounted ==
    /\ startup_error \in {"none", "RuntimeError_discover", "ValueError_range", "ValueError_qps"}
    /\ spc = "bench" =>
          /\ Len(results) = cand - 1
          /\ failure = probe_raised[cand]
          /\ success + failure = probe
    /\ spc \in {"select", "tuned", "returned"} => Len(results) = Len(Candidates)
    /\ \A i \in 1..Len(results) :
          /\ results[i].failure = probe_raised[i]
          /\ results[i].success + results[i].failure = probe_n

\* every candidate was measured and one of them had one probe that failed
\* and one that succeeded
C18_Witness ==
    /\ spc = "select"
    /\ probe_n = 2
    /\ \E i \in 1..Len(results) : results[i].success = 1 /\ results[i].failure = 1
    /\ \E i \in 1..Len(results) : results[i].failure = 2


\* ------------------------------------------------------------------ C21
\* C21: no caller of wait() is asleep while it holds the limiter's lock: a
\* caller that has to sleep has released the lock before it sleeps.
C21_NoSleepHoldingLock ==
    \A t \in Callers : tpc[t] = "sleeping" => lock # t


\* ------------------------------------------------------------------ C22
\* C22: a hydration cycle builds one limiter, and every future a pool thread
\* has started (running, done or merged), stationary pairs included, stands
\* for one completed wait() on it by the thread that runs it: as many
\* acquires as started futures, each running future on exactly one thread.
C22_EveryCallPassesLimiter ==
    /\ limiters_made <= 1
    /\ hpc = "pool" => (limiters_made = 1 /\ limiter = "built")
    /\ acquires = Cardinality({ i \in 1..Len(fut) : fut[i].st # "queued" })
    /\ \A i \in 1..Len(fut) :
          fut[i].st = "running" <=> (\E w \in PoolThreads : wtask[w] = i)
    /\ \A v \in PoolThreads : \A w \in PoolThreads :
          (wtask[v] # 0 /\ wtask[v] = wtask[w]) => v = w

\* two threads each passed the limiter and hold a future, one of them for a
\* pair with equal ends
C22_Witness ==
    /\ hpc = "pool"
    /\ acquires = 2
    /\ wtask[1] # 0
    /\ wtask[2] # 0
    /\ \E w \in PoolThreads :
          FloatEq(to_fetch[wtask[w]][1], to_fetch[wtask[w]][3])

\* ------------------------------------------------------------------ C23
\* C23: every step that changes the cache during a hydration cycle is a step
\* of the calling thread (one round of the as_completed loop, or the cap
\* loop at the end); no step of a pool thread changes it.
C23_CacheWrittenByCaller ==
    [][ cache' # cache =>
          /\ hpc = "pool"
          /\ wtask' = wtask
          /\ \/ hpc' = "returned"
             \/ (done_order # <<>> /\ done_order' = Tail(done_order)) ]_vars

\* a result was merged into the cache while a pool thread was running
\* another pair
C23_Witness ==
    /\ hpc = "pool"
    /\ cache # cache_at_call
    /\ \E w \in PoolThreads : wtask[w] # 0

\* ------------------------------------------------------------------ C24
\* C24: once auto-tune has benchmarked its grid, the --osrm-qps value the
\* operator passed is the qps of one of the benchmarked candidates.
C24_BaselineBenchmarked ==
    spc = "select" => \E i \in 1..Len(results) : results[i].qps = qps_arg

\* ------------------------------------------------------------------ C25
\* C25 as stated: whenever the state file says completed, its
\* completed_months equals its total_months.
C25_CompletedMeansAll ==
    state_file.status = "completed" =>
        state_file.completed_months = state_file.total_months

\* C25, amended: whenever the state file says completed, completed_months is
\* total_months less the months of this run whose pipeline failed and was
\* logged and skipped; without continue-on-error no month is left out and
\* completed_months equals total_months.
C25_CompletedCountsAllButFailed ==
    (bpc = "completed" /\ state_file.status = "completed") =>
        /\ state_file.completed_months = state_file.total_months - Cardinality(failed)
        /\ ~continue_on_error => state_file.completed_months = state_file.total_months

\* a run that ends completed after one of its months failed
C25_Witness ==
    /\ bpc = "completed"
    /\ state_file.status = "completed"
    /\ failed # {}
    /\ state_file.completed_months < state_file.total_months

\* ------------------------------------------------------------------ C26
\* C26: in a cycle that loaded the store the first cycle saved, every pair
\* the first cycle left with a fallback_straight_line or
\* fallback_max_new_routes result is a row of the store and an entry of the
\* cache, unchanged, and is neither missing, nor submitted to the pool, nor
\* given to the resolver, nor in the capped rest.
FallbackSources == {"fallback_straight_line", "fallback_max_new_routes"}

C26_FallbacksStayCached ==
    (call_no = 2 /\ fpc = "loaded") =>
        \A k \in DOMAIN first_return :
            first_return[k].route_source \in FallbackSources =>
                /\ \E i \in 1..Len(cache_file.rows) :
                      cache_file.rows[i] = RowOf(first_return[k])
                /\ k \in DOMAIN cache
                /\ cache[k] = first_return[k]
                /\ \A i \in 1..Len(missing) : hpc # "call" => route_key(missing[i]) # k
                /\ \A i \in 1..Len(to_fetch) : route_key(to_fetch[i]) # k
                /\ \A i \in 1..Len(to_fallback) : route_key(to_fallback[i]) # k
                /\ \A q \in resolver_calls : route_key(q) # k

\* the second cycle returned after a first cycle that attempted a pair and
\* left one pair of the trips with a fallback of each kind
C26_Witness ==
    /\ call_no = 2
    /\ fpc = "loaded"
    /\ hpc = "returned"
    /\ first_attempts >= 1
    /\ \E p \in PairsOf(UniquePairs(trips)) : \E q \in PairsOf(UniquePairs(trips)) :
          /\ route_key(p) \in DOMAIN first_return
          /\ route_key(q) \in DOMAIN first_return
          /\ first_return[route_key(p)].route_source = "fallback_straight_line"
          /\ route_key(p) # route_key(RoundPair(<<4, 20, 10, 20>>))
          /\ first_return[route_key(q)].route_source = "fallback_max_new_routes"

\* ------------------------------------------------------------------ C27
\* C27: a month that an invocation counted without starting its pipeline
\* (skipped by resume) has the whole output of a pipeline run that finished:
\* all its daily files, not the first ones of a run that failed part-way.
C27_SkippedOnlyIfFinished ==
    \A m \in marked : m \notin pipelines_started => output_days[m] = DaysPerMonth

\* ------------------------------------------------------------------ C28
\* C28: in a run during which the pause file has been there from the start,
\* the pipeline is started for at most one month and the run does not end
\* completed.
C28_HeldPauseStopsAfterOne ==
    pause_held =>
        /\ Cardinality(pipelines_started) <= 1
        /\ bpc # "completed"

\* ------------------------------------------------------------------ C29
\* C29: every snapshot in the state file has 0 <= completed_months <=
\* total_months and completed_months equal to the number of months the run
\* has so far skipped by resume or processed successfully (none of them a
\* month that failed); within a run the snapshots' completed_months never
\* decreases, and a step that counts a month counts one month not counted
\* before.
C29_ProgressCounter ==
    /\ [](/\ state_file.completed_months >= 0
          /\ state_file.completed_months <= state_file.total_months
          /\ state_file.total_months = months_n
          /\ state_file.completed_months = Cardinality(marked)
          /\ marked \subseteq 1..months_n
          /\ marked \cap failed = {}
          /\ \A m \in marked : m \in pipelines_started \/ SkipsMonth(m))
    /\ [][ run_no' = run_no =>
             /\ state_file'.completed_months >= state_file.completed_months
             /\ marked' # marked =>
                   /\ index \notin marked
                   /\ marked' = marked \cup {index}
                   /\ state_file'.completed_months = state_file.completed_months + 1
         ]_vars

\* a run that completed after skipping one month by resume and processing
\* another
C29_Witness ==
    /\ bpc = "completed"
    /\ state_file.completed_months = 2
    /\ \E m \in marked : m \notin pipelines_started
    /\ \E m \in marked : m \in pipelines_started

\* ------------------------------------------------------------------ C30
\* C30: a hydration cycle that has submitted its pairs to the pool returns;
\* and when it has returned, every submitted pair has passed the limiter
\* once, its future is merged, and the cache holds its one result under the
\* pair's key.
C30_CycleTerminates ==
    /\ (hpc = "pool") ~> (hpc = "returned")
    /\ []((hpc = "returned" /\ fut # <<>>) =>
            /\ Len(fut) = Len(to_fetch)
            /\ acquires = Len(fut)
            /\ done_order = <<>>
            /\ \A w \in PoolThreads : wtask[w] = 0
            /\ \A i \in 1..Len(fut) :
                  /\ fut[i].st = "merged"
                  /\ route_key(to_fetch[i]) \in DOMAIN cache
                  /\ cache[route_key(to_fetch[i])] = fut[i].result)

\* one pool thread has worked through two submitted pairs and the call has
\* returned
C30_Witness ==
    /\ hpc = "returned"
    /\ osrm_workers = 1
    /\ Len(fut) = 2
    /\ \A i \in 1..Len(fut) : fut[i].st = "merged"

====
